---- MODULE Spec2Model ----
(***************************************************************************)
(* A model of megablocks/layers/mlp.py.                                    *)
(*                                                                         *)
(* Three state machines share this module:                                 *)
(*   Spec          MemoryOptimizedMLP.forward / backward, one step per     *)
(*                 kernel call, over a heap of tensor buffers;             *)
(*   SpecShard     create_moe_expert_weights / create_dmoe_expert_weights  *)
(*                 run by every rank of a sharding configuration;          *)
(*   SpecDispatch  MLP.forward / SparseMLP.forward with ScaleGradient and  *)
(*                 the gradient each weight parameter receives.            *)
(*                                                                         *)
(* Tensors are references to heap buffers.  The kernels of stk and turbo   *)
(* are outside this repository: a kernel's result is the term naming the   *)
(* kernel and the contents it read, so two results are equal exactly when  *)
(* the same kernels were applied to the same data in the same order.       *)
(***************************************************************************)
EXTENDS Integers, Sequences, FiniteSets, TLC

VARIABLES
    \* ---- MemoryOptimizedMLP ----
    pc,       \* position inside forward / backward
    args,     \* the arguments of the running forward call
    heap,     \* buffer id -> contents (a term)
    ver,      \* buffer id -> number of times the buffer was overwritten
    ctx,      \* the autograd context: shape, num_bits, saved_tensors
    fl,       \* locals of forward
    bl,       \* locals of backward
    bbound,   \* names of backward's locals that are bound
    grads,    \* ctx.needs_input_grad of the running backward call
    log,      \* kernel calls of the running call: what each read and wrote
    pre,      \* heap, ver and ctx when the running call was entered
    err,      \* the exception raised by the running call ("" if none)
    ret,      \* the value returned by the last completed call
    nbwd,     \* backward calls made on the current context
    \* ---- weight sharding ----
    cfg,      \* the sharding configuration (Arguments and mpu)
    moe,      \* rank -> result of create_moe_expert_weights
    dmoe,     \* <<rank, wp rank>> -> result of create_dmoe_expert_weights
    \* ---- SparseMLP / MLP ----
    mod,      \* the module: kind, flags, gradient_scale
    dpc,      \* position of the module's training step
    graph,    \* ScaleGradient nodes created by forward
    callee,   \* the strategy forward dispatched to, and its arguments
    pgrad     \* gradient accumulated on the parameters w1 and w2

opvars == <<pc, args, heap, ver, ctx, fl, bl, bbound, grads, log, pre, err, ret, nbwd>>
shardvars == <<cfg, moe, dmoe>>
dispvars == <<mod, dpc, graph, callee, pgrad>>
vars == <<pc, args, heap, ver, ctx, fl, bl, bbound, grads, log, pre, err, ret, nbwd,
          cfg, moe, dmoe, mod, dpc, graph, callee, pgrad>>

(***************************************************************************)
(* Bounds of the model.                                                    *)
(***************************************************************************)
\* num_bits arguments tried: -1 .. MaxNumBits
MaxNumBits == 8
\* topology shapes tried: (1..MaxBlocks) x (1..MaxBlocks)
MaxBlocks == 2
\* backward calls on one saved context
MaxBackward == 2

(***************************************************************************)
(* Terms: the contents of a buffer.                                        *)
(***************************************************************************)
T(op, a, p) == [op |-> op, a |-> a, p |-> p]
Atom(name) == T(name, <<>>, <<>>)

None == 0

\* ---- kernels of stk, turbo and megablocks.layers.gelu, by what they are
\* ---- given at their call sites in mlp.py

\* x.t() / w.t() / matrix.t(): the transposed view of the same buffer
t(a) == T("t", <<a>>, <<>>)

\* stk.backend.triton_kernels.sdd(lhs, rhs, shape, out, offsets, row_indices,
\* column_indices): the value written to out
sdd_kernel(lhs, rhs, shape, offsets, row_indices, column_indices) ==
    T("sdd", <<lhs, rhs, offsets, row_indices, column_indices>>, shape)

\* stk.backend.triton_kernels.dsd(shape, data, offsets, row_indices,
\* column_indices, offsets_t, column_indices_t, block_offsets_t, transpose_a,
\* rhs, out): the value written to out
dsd_kernel(shape, data, offsets, row_indices, column_indices, offsets_t, column_indices_t, block_offsets_t, transpose_a, rhs) ==
    T(IF transpose_a THEN "dsd_t" ELSE "dsd",
      <<data, offsets, row_indices, column_indices, offsets_t,
        column_indices_t, block_offsets_t, rhs>>, shape)

\* gelu.gelu(x): the data of the new matrix
gelu_value(x) == T("gelu", <<x>>, <<>>)

\* gelu.gelu_backward_(grad, x): the value left in the buffer it overwrites
gelu_backward_value(grad, x) == T("gelu_backward", <<grad, x>>, <<>>)

\* turbo.quantize_signed(x, num_bits=...): (packed, scales)
quantize_signed(x, num_bits) ==
    <<T("q", <<x>>, <<num_bits>>), T("q_scales", <<x>>, <<num_bits>>)>>

\* turbo.quantize_signed(x, num_bits=..., op=GELU_FORWARD):
\* (packed, scales, gelu output)
quantize_signed_gelu(x, num_bits) ==
    <<T("q", <<x>>, <<num_bits>>), T("q_scales", <<x>>, <<num_bits>>),
      T("q_gelu_forward", <<x>>, <<num_bits>>)>>

\* turbo.dequantize_signed(q, scales, num_bits=...)
dequantize_signed(q, scales, num_bits) ==
    T("deq", <<q, scales>>, <<num_bits>>)

\* turbo.dequantize_signed(q, scales, num_bits=..., op=GELU_FORWARD)
dequantize_signed_gelu(q, scales, num_bits) ==
    T("deq_gelu_forward", <<q, scales>>, <<num_bits>>)

\* turbo.dequantize_signed(q, scales, num_bits=..., op=GELU_BACKWARD,
\* x_out=grad): the value left in x_out
dequantize_signed_gelu_backward(q, scales, num_bits, grad) ==
    T("deq_gelu_backward", <<q, scales, grad>>, <<num_bits>>)

(***************************************************************************)
(* The heap.                                                               *)
(***************************************************************************)
\* the tensors a forward call is given: x, w1, w2 and topo's six tensors
InputNames == <<"x", "w1", "w2", "row_indices", "column_indices", "offsets",
                "column_indices_t", "offsets_t", "block_offsets_t">>
Buf(name) == CHOOSE i \in 1..Len(InputNames) : InputNames[i] = name
InitHeap == [i \in 1..Len(InputNames) |-> Atom(InputNames[i])]
InitVer == [i \in 1..Len(InputNames) |-> 0]

\* topo_tensors = (topo.row_indices, topo.column_indices, topo.offsets,
\*                 topo.column_indices_t, topo.offsets_t, topo.block_offsets_t)
topo_tensors == <<Buf("row_indices"), Buf("column_indices"), Buf("offsets"),
                  Buf("column_indices_t"), Buf("offsets_t"),
                  Buf("block_offsets_t")>>

\* stk.Matrix(size, data, row_indices, column_indices, offsets,
\*            column_indices_t, offsets_t, block_offsets_t)
Matrix(shape, data, tt) ==
    [shape |-> shape, data |-> data,
     row_indices |-> tt[1], column_indices |-> tt[2], offsets |-> tt[3],
     column_indices_t |-> tt[4], offsets_t |-> tt[5],
     block_offsets_t |-> tt[6]]
NoMatrix == Matrix(<<0, 0>>, None, <<None, None, None, None, None, None>>)

\* a fresh buffer holding c
Alloc(h, c) == Append(h, c)
AllocVer(v) == Append(v, 0)
\* an existing buffer overwritten with c
Store(h, b, c) == [h EXCEPT ![b] = c]
Bump(v, b) == [v EXCEPT ![b] = @ + 1]

\* a kernel call as the log records it
Ev(step, reads, writes) == [step |-> step, reads |-> reads, writes |-> writes]
Rd(v, bufs) == {<<b, v[b]>> : b \in bufs}
MetaBufs(m) == {m.row_indices, m.column_indices, m.offsets,
                m.column_indices_t, m.offsets_t, m.block_offsets_t}

\* stk.ops.sdd(a, b, topo): contents of the new matrix's data
sdd(h, a, b, topo) ==
    sdd_kernel(a, b, topo.shape, h[topo.offsets], h[topo.row_indices],
               h[topo.column_indices])
\* stk.ops.dsd(a, b): contents of the new dense output
dsd(h, a, transposed, b) ==
    dsd_kernel(a.shape, h[a.data], h[a.offsets], h[a.row_indices],
               h[a.column_indices], h[a.offsets_t], h[a.column_indices_t],
               h[a.block_offsets_t], transposed, b)

(***************************************************************************)
(* MemoryOptimizedMLP.forward                                              *)
(***************************************************************************)
EmptyCtx == [shape |-> <<0, 0>>, num_bits |-> 0, saved_tensors |-> <<>>]
NoArgs == [x_contig |-> TRUE, w1_contig |-> TRUE, w2_contig |-> TRUE,
           num_bits |-> -1, shape |-> <<0, 0>>]
InitFl == [sdd_out |-> NoMatrix, gelu_out |-> NoMatrix,
           input_save_args |-> <<>>, dsd_out |-> None]
InitBl == [x |-> None, sdd_out_data |-> None, w1 |-> None, w2 |-> None,
           x_q |-> None, x_scales |-> None, hidden_q |-> None,
           hidden_scales |-> None, topo_tensors |-> <<>>,
           sdd_out |-> NoMatrix, gelu_out |-> NoMatrix,
           dgelu_out |-> NoMatrix, dsdd_out |-> NoMatrix,
           gelu_out_tensor |-> None, ddsd_out_tensor |-> None,
           ddsd_out |-> None, dw1 |-> None, dw2 |-> None, dx |-> None]

NumBitsInputs == -1..MaxNumBits
Shapes == (1..MaxBlocks) \X (1..MaxBlocks)

\* the topo argument: a stk.Matrix of the given shape
topo(shape) == Matrix(shape, None, topo_tensors)

\* forward's checks with the num_bits check left out
forward_precondition_contiguity_only(a) ==
    IF ~a.x_contig \/ ~a.w1_contig \/ ~a.w2_contig
    THEN "ValueError: Expected contiguous 'x', 'w1' and 'w2'."
    ELSE ""

\* the checks at the head of forward: the error raised, "" when none
forward_precondition(a) ==
    IF ~a.x_contig \/ ~a.w1_contig \/ ~a.w2_contig
    THEN "ValueError: Expected contiguous 'x', 'w1' and 'w2'."
    ELSE IF a.num_bits \notin {-1, 4, 8}
         THEN "ValueError: Activation quantization num_bits"
         ELSE ""

\* the first matmul with w1 not transposed
forward_sdd_value_untransposed(h, tp) == sdd(h, h[Buf("x")], h[Buf("w1")], tp)

\* sdd_out = stk.ops.sdd(x, w1.t(), topo)
forward_sdd_value(h, tp) == sdd(h, h[Buf("x")], t(h[Buf("w1")]), tp)

\* ctx.save_for_backward(*input_save_args, w1, w2, *topo_tensors)
forward_saved(input_save_args) ==
    input_save_args \o <<Buf("w1"), Buf("w2")>> \o topo_tensors

\* forward is entered: the arguments are bound and the checks run
forward_call ==
    /\ pc \in {"idle", "fwd_done", "bwd_done", "raised"}
    /\ \E xc \in BOOLEAN, w1c \in BOOLEAN, w2c \in BOOLEAN,
          nb \in NumBitsInputs, shape \in Shapes :
          LET a == [x_contig |-> xc, w1_contig |-> w1c, w2_contig |-> w2c,
                    num_bits |-> nb, shape |-> shape]
              e == forward_precondition(a)
          IN /\ args' = a
             /\ err' = e
             /\ pc' = IF e = "" THEN "fwd_sdd" ELSE "raised"
    /\ heap' = InitHeap
    /\ ver' = InitVer
    /\ ctx' = EmptyCtx
    /\ pre' = [heap |-> InitHeap, ver |-> InitVer, ctx |-> EmptyCtx]
    /\ fl' = InitFl
    /\ bl' = InitBl
    /\ bbound' = {}
    /\ grads' = <<TRUE, TRUE, TRUE>>
    /\ log' = <<>>
    /\ ret' = <<>>
    /\ nbwd' = 0
    /\ UNCHANGED <<shardvars, dispvars>>

\* Layer 0: sdd_out = stk.ops.sdd(x, w1.t(), topo)
forward_sdd ==
    /\ pc = "fwd_sdd"
    /\ LET id == Len(heap) + 1
           tp == topo(args.shape)
       IN /\ heap' = Alloc(heap, forward_sdd_value(heap, tp))
          /\ ver' = AllocVer(ver)
          /\ fl' = [fl EXCEPT !.sdd_out = Matrix(tp.shape, id, topo_tensors)]
          /\ log' = Append(log, Ev("sdd",
                 Rd(ver, {Buf("x"), Buf("w1"), tp.offsets, tp.row_indices,
                          tp.column_indices}), {id}))
    /\ pc' = "fwd_gelu"
    /\ UNCHANGED <<args, ctx, bl, bbound, grads, pre, err, ret, nbwd,
                   shardvars, dispvars>>

\* GeLU, with or without quantization
forward_gelu ==
    /\ pc = "fwd_gelu"
    /\ IF args.num_bits = -1
       THEN LET id == Len(heap) + 1
            IN /\ heap' = Alloc(heap, gelu_value(heap[fl.sdd_out.data]))
               /\ ver' = AllocVer(ver)
               /\ fl' = [fl EXCEPT
                     !.gelu_out = Matrix(fl.sdd_out.shape, id, topo_tensors),
                     !.input_save_args = <<Buf("x"), fl.sdd_out.data>>]
               /\ log' = Append(log, Ev("gelu",
                      Rd(ver, {fl.sdd_out.data}), {id}))
       ELSE LET qh == quantize_signed_gelu(heap[fl.sdd_out.data], args.num_bits)
                qx == quantize_signed(heap[Buf("x")], args.num_bits)
                hidden_q == Len(heap) + 1
                hidden_scales == Len(heap) + 2
                gelu_out_data == Len(heap) + 3
                x_q == Len(heap) + 4
                x_scales == Len(heap) + 5
            IN /\ heap' = heap \o <<qh[1], qh[2], qh[3], qx[1], qx[2]>>
               /\ ver' = ver \o <<0, 0, 0, 0, 0>>
               /\ fl' = [fl EXCEPT
                     !.gelu_out = Matrix(fl.sdd_out.shape, gelu_out_data,
                                         topo_tensors),
                     !.input_save_args =
                         <<x_q, x_scales, hidden_q, hidden_scales>>]
               /\ log' = log \o
                     <<Ev("quantize_gelu", Rd(ver, {fl.sdd_out.data}),
                          {hidden_q, hidden_scales, gelu_out_data}),
                       Ev("quantize_x", Rd(ver, {Buf("x")}), {x_q, x_scales})>>
    /\ pc' = "fwd_dsd"
    /\ UNCHANGED <<args, ctx, bl, bbound, grads, pre, err, ret, nbwd,
                   shardvars, dispvars>>

\* Layer 1: dsd_out = stk.ops.dsd(gelu_out, w2)
forward_dsd ==
    /\ pc = "fwd_dsd"
    /\ LET id == Len(heap) + 1
       IN /\ heap' = Alloc(heap, dsd(heap, fl.gelu_out, FALSE, heap[Buf("w2")]))
          /\ ver' = AllocVer(ver)
          /\ fl' = [fl EXCEPT !.dsd_out = id]
          /\ log' = Append(log, Ev("dsd",
                 Rd(ver, {fl.gelu_out.data, Buf("w2")} \cup MetaBufs(fl.gelu_out)),
                 {id}))
    /\ pc' = "fwd_save"
    /\ UNCHANGED <<args, ctx, bl, bbound, grads, pre, err, ret, nbwd,
                   shardvars, dispvars>>

\* ctx.shape, ctx.num_bits, ctx.save_for_backward(...); return dsd_out
forward_save ==
    /\ pc = "fwd_save"
    /\ ctx' = [shape |-> topo(args.shape).shape, num_bits |-> args.num_bits,
               saved_tensors |-> forward_saved(fl.input_save_args)]
    /\ ret' = <<fl.dsd_out>>
    /\ pc' = "fwd_done"
    /\ UNCHANGED <<args, heap, ver, fl, bl, bbound, grads, log, pre, err, nbwd,
                   shardvars, dispvars>>

(***************************************************************************)
(* MemoryOptimizedMLP.backward                                             *)
(***************************************************************************)
\* the statements of backward after its check, in program order
BackwardOrder ==
    <<"bwd_remat", "bwd_dw2", "bwd_dgelu", "bwd_dsdd", "bwd_dw1", "bwd_dx">>
BackwardAfter(step) ==
    LET i == CHOOSE k \in 1..Len(BackwardOrder) : BackwardOrder[k] = step
    IN IF i = Len(BackwardOrder) THEN "bwd_done" ELSE BackwardOrder[i + 1]

\* the check at the head of backward: the error raised, "" when none
backward_precondition(needs_input_grad) ==
    IF ~needs_input_grad[1] \/ ~needs_input_grad[2] \/ ~needs_input_grad[3]
    THEN "ValueError: Expected all MLP inputs to need grad."
    ELSE ""

\* the slice [2:4] in place of [4:6]
saved_2_to_4(s) == SubSeq(s, 3, 4)

\* ctx.saved_tensors[:4], [4:6] and [-6:]
saved_first4(s) == SubSeq(s, 1, 4)
saved_4_to_6(s) == SubSeq(s, 5, 6)
saved_last6(s) == SubSeq(s, Len(s) - 5, Len(s))

\* the buffer gelu.gelu_backward_(grad, x) overwrites: the gradient's
\* ("NOTE: This reuses the dgelu_out allocation.")
gelu_backward_target(grad, x) == grad.data

\* dgelu_out written over the saved pre-activation instead of gelu_out
dgelu_target_sdd_out(b) == b.sdd_out.data

\* the out argument of the sdd kernel that computes dgelu_out: gelu_out.data
dgelu_target(b) == b.gelu_out.data

\* the out argument of the dsd kernel that computes dx: ddsd_out
dx_target(b) == b.ddsd_out

\* the local names a statement of backward reads
backward_reads(step, num_bits) ==
    CASE step = "bwd_remat" -> {"ctx"}
      [] step = "bwd_dw2" -> {"gelu_out", "ddsd_out"}
      [] step = "bwd_dgelu" -> {"ddsd_out", "w2", "sdd_out", "gelu_out"}
      [] step = "bwd_dsdd" ->
            IF num_bits = -1 THEN {"dgelu_out", "sdd_out"}
            ELSE {"hidden_q", "hidden_scales", "dgelu_out", "ctx",
                  "topo_tensors", "x_q", "x_scales"}
      [] step = "bwd_dw1" -> {"dsdd_out", "x"}
      [] step = "bwd_dx" -> {"dsdd_out", "w1", "ddsd_out", "dw1", "dw2"}

\* a read of an unbound local: Python raises UnboundLocalError
Unbound(step) == backward_reads(step, ctx.num_bits) \ bbound
RaiseUnbound(step) ==
    /\ Unbound(step) # {}
    /\ pc' = "raised"
    /\ err' = "UnboundLocalError"
    /\ UNCHANGED <<args, heap, ver, ctx, fl, bl, bbound, grads, log, pre, ret,
                   nbwd, shardvars, dispvars>>

\* backward is entered with the incoming gradient ddsd_out: the check runs
backward_call ==
    /\ \/ pc \in {"fwd_done", "bwd_done"}
       \/ pc = "raised" /\ ctx.saved_tensors # <<>>
    /\ nbwd < MaxBackward
    /\ \E g \in BOOLEAN \X BOOLEAN \X BOOLEAN :
          LET e == backward_precondition(g)
              id == Len(heap) + 1
              h == Alloc(heap, T("ddsd_out", <<>>, <<nbwd + 1>>))
          IN /\ grads' = g
             /\ err' = e
             /\ pc' = IF e = "" THEN BackwardOrder[1] ELSE "raised"
             /\ heap' = h
             /\ ver' = AllocVer(ver)
             /\ bl' = [InitBl EXCEPT !.ddsd_out = id]
             /\ pre' = [heap |-> h, ver |-> AllocVer(ver), ctx |-> ctx]
    /\ bbound' = {"ctx", "ddsd_out"}
    /\ log' = <<>>
    /\ ret' = <<>>
    /\ nbwd' = nbwd + 1
    /\ UNCHANGED <<args, ctx, fl, shardvars, dispvars>>

\* rematerialize gelu output
backward_remat ==
    /\ pc = "bwd_remat"
    /\ \/ RaiseUnbound("bwd_remat")
       \/ /\ Unbound("bwd_remat") = {}
          /\ LET num_bits == ctx.num_bits
                 tt == saved_last6(ctx.saved_tensors)
                 f4 == saved_first4(ctx.saved_tensors)
                 id == Len(heap) + 1
             IN IF num_bits = -1
                THEN LET sdd_out == Matrix(ctx.shape, f4[2], tt)
                     IN /\ heap' = Alloc(heap, gelu_value(heap[sdd_out.data]))
                        /\ bl' = [bl EXCEPT !.topo_tensors = tt,
                               !.x = f4[1], !.sdd_out_data = f4[2],
                               !.w1 = f4[3], !.w2 = f4[4],
                               !.sdd_out = sdd_out,
                               !.gelu_out = Matrix(sdd_out.shape, id, tt)]
                        /\ bbound' = bbound \cup
                               {"num_bits", "topo_tensors", "x", "sdd_out_data",
                                "w1", "w2", "sdd_out", "gelu_out"}
                        /\ log' = Append(log, Ev("gelu",
                               Rd(ver, {sdd_out.data}), {id}))
                ELSE LET w == saved_4_to_6(ctx.saved_tensors)
                     IN /\ heap' = Alloc(heap, dequantize_signed_gelu(
                               heap[f4[3]], heap[f4[4]], num_bits))
                        /\ bl' = [bl EXCEPT !.topo_tensors = tt,
                               !.x_q = f4[1], !.x_scales = f4[2],
                               !.hidden_q = f4[3], !.hidden_scales = f4[4],
                               !.w1 = w[1], !.w2 = w[2],
                               !.gelu_out_tensor = id,
                               !.gelu_out = Matrix(ctx.shape, id, tt)]
                        /\ bbound' = bbound \cup
                               {"num_bits", "topo_tensors", "x_q", "x_scales",
                                "hidden_q", "hidden_scales", "w1", "w2",
                                "gelu_out_tensor", "gelu_out"}
                        /\ log' = Append(log, Ev("dequantize_gelu",
                               Rd(ver, {f4[3], f4[4]}), {id}))
          /\ ver' = AllocVer(ver)
          /\ pc' = BackwardAfter("bwd_remat")
          /\ UNCHANGED <<args, ctx, fl, grads, pre, err, ret, nbwd,
                         shardvars, dispvars>>

\* dw2 = stk.ops.dsd(gelu_out.t(), ddsd_out)
backward_dw2 ==
    /\ pc = "bwd_dw2"
    /\ \/ RaiseUnbound("bwd_dw2")
       \/ /\ Unbound("bwd_dw2") = {}
          /\ LET id == Len(heap) + 1
             IN /\ heap' = Alloc(heap,
                       dsd(heap, bl.gelu_out, TRUE, heap[bl.ddsd_out]))
                /\ bl' = [bl EXCEPT !.dw2 = id]
                /\ log' = Append(log, Ev("dw2",
                       Rd(ver, {bl.gelu_out.data, bl.ddsd_out}
                               \cup MetaBufs(bl.gelu_out)), {id}))
          /\ ver' = AllocVer(ver)
          /\ bbound' = bbound \cup {"dw2"}
          /\ pc' = BackwardAfter("bwd_dw2")
          /\ UNCHANGED <<args, ctx, fl, grads, pre, err, ret, nbwd,
                         shardvars, dispvars>>

\* dgelu_out: the sdd kernel writes into gelu_out.data
backward_dgelu ==
    /\ pc = "bwd_dgelu"
    /\ \/ RaiseUnbound("bwd_dgelu")
       \/ /\ Unbound("bwd_dgelu") = {}
          /\ LET out == dgelu_target(bl)
                 m == bl.sdd_out
             IN /\ heap' = Store(heap, out,
                       sdd_kernel(heap[bl.ddsd_out], t(heap[bl.w2]), m.shape,
                                  heap[m.offsets], heap[m.row_indices],
                                  heap[m.column_indices]))
                /\ ver' = Bump(ver, out)
                /\ log' = Append(log, Ev("dgelu",
                       Rd(ver, {bl.ddsd_out, bl.w2, m.offsets, m.row_indices,
                                m.column_indices}), {out}))
          /\ bl' = [bl EXCEPT !.dgelu_out = bl.gelu_out]
          /\ bbound' = bbound \cup {"dgelu_out"}
          /\ pc' = BackwardAfter("bwd_dgelu")
          /\ UNCHANGED <<args, ctx, fl, grads, pre, err, ret, nbwd,
                         shardvars, dispvars>>

\* dsdd_out: the GELU backward, in place
backward_dsdd ==
    /\ pc = "bwd_dsdd"
    /\ \/ RaiseUnbound("bwd_dsdd")
       \/ /\ Unbound("bwd_dsdd") = {}
          /\ IF ctx.num_bits = -1
             THEN LET out == gelu_backward_target(bl.dgelu_out, bl.sdd_out)
                  IN /\ heap' = Store(heap, out, gelu_backward_value(
                            heap[bl.dgelu_out.data], heap[bl.sdd_out.data]))
                     /\ ver' = Bump(ver, out)
                     /\ bl' = [bl EXCEPT !.dsdd_out =
                            Matrix(bl.sdd_out.shape, out,
                                   <<bl.sdd_out.row_indices,
                                     bl.sdd_out.column_indices,
                                     bl.sdd_out.offsets,
                                     bl.sdd_out.column_indices_t,
                                     bl.sdd_out.offsets_t,
                                     bl.sdd_out.block_offsets_t>>)]
                     /\ bbound' = bbound \cup {"dsdd_out"}
                     /\ log' = Append(log, Ev("dsdd",
                            Rd(ver, {bl.dgelu_out.data, bl.sdd_out.data}),
                            {out}))
             ELSE LET out == bl.dgelu_out.data
                      id == Len(heap) + 1
                      h1 == Store(heap, out, dequantize_signed_gelu_backward(
                                heap[bl.hidden_q], heap[bl.hidden_scales],
                                ctx.num_bits, heap[out]))
                  IN /\ heap' = Alloc(h1, dequantize_signed(
                            heap[bl.x_q], heap[bl.x_scales], ctx.num_bits))
                     /\ ver' = AllocVer(Bump(ver, out))
                     /\ bl' = [bl EXCEPT !.ddsd_out_tensor = out,
                            !.dsdd_out = Matrix(ctx.shape, out, bl.topo_tensors),
                            !.x = id]
                     /\ bbound' = bbound \cup {"ddsd_out_tensor", "dsdd_out", "x"}
                     /\ log' = log \o
                            <<Ev("dsdd", Rd(ver, {bl.hidden_q, bl.hidden_scales,
                                                  out}), {out}),
                              Ev("dequantize_x", Rd(ver, {bl.x_q, bl.x_scales}),
                                 {id})>>
          /\ pc' = BackwardAfter("bwd_dsdd")
          /\ UNCHANGED <<args, ctx, fl, grads, pre, err, ret, nbwd,
                         shardvars, dispvars>>

\* dw1 = stk.ops.dsd(dsdd_out.t(), x)
backward_dw1 ==
    /\ pc = "bwd_dw1"
    /\ \/ RaiseUnbound("bwd_dw1")
       \/ /\ Unbound("bwd_dw1") = {}
          /\ LET id == Len(heap) + 1
             IN /\ heap' = Alloc(heap, dsd(heap, bl.dsdd_out, TRUE, heap[bl.x]))
                /\ bl' = [bl EXCEPT !.dw1 = id]
                /\ log' = Append(log, Ev("dw1",
                       Rd(ver, {bl.dsdd_out.data, bl.x}
                               \cup MetaBufs(bl.dsdd_out)), {id}))
          /\ ver' = AllocVer(ver)
          /\ bbound' = bbound \cup {"dw1"}
          /\ pc' = BackwardAfter("bwd_dw1")
          /\ UNCHANGED <<args, ctx, fl, grads, pre, err, ret, nbwd,
                         shardvars, dispvars>>

\* dx: the dsd kernel writes into ddsd_out; return dx, dw1, dw2, None, None
backward_dx ==
    /\ pc = "bwd_dx"
    /\ \/ RaiseUnbound("bwd_dx")
       \/ /\ Unbound("bwd_dx") = {}
          /\ LET out == dx_target(bl)
                 m == bl.dsdd_out
             IN /\ heap' = Store(heap, out,
                       dsd_kernel(m.shape, heap[m.data], heap[m.offsets],
                                  heap[m.row_indices], heap[m.column_indices],
                                  heap[m.offsets_t], heap[m.column_indices_t],
                                  heap[m.block_offsets_t], FALSE, heap[bl.w1]))
                /\ ver' = Bump(ver, out)
                /\ log' = Append(log, Ev("dx",
                       Rd(ver, {m.data, bl.w1} \cup MetaBufs(m)), {out}))
          /\ bl' = [bl EXCEPT !.dx = bl.ddsd_out]
          /\ bbound' = bbound \cup {"dx"}
          /\ ret' = <<bl.ddsd_out, bl.dw1, bl.dw2, None, None>>
          /\ pc' = BackwardAfter("bwd_dx")
          /\ UNCHANGED <<args, ctx, fl, grads, pre, err, nbwd,
                         shardvars, dispvars>>

(***************************************************************************)
(* Weight sharding: create_moe_expert_weights, create_dmoe_expert_weights  *)
(*                                                                         *)
(* A weight tensor [experts, rows, columns] is a sequence (experts) of     *)
(* sequences (rows); no slice touches the columns, so a row is one value:  *)
(* the number of the master row it was initialised as.                     *)
(***************************************************************************)
\* num_experts tried: 1..MaxExperts
MaxExperts == 2
\* ffn_hidden_size tried: 1..MaxFfn
MaxFfn == 3
\* sharding degrees and weight parallel world sizes tried: 1..MaxDegree
MaxDegree == 2

Configs ==
    [ep : BOOLEAN,               \* args.moe_expert_model_parallelism
     wp : BOOLEAN,               \* args.moe_weight_parallelism
     E : 1..MaxExperts,          \* num_experts
     F : 1..MaxFfn,              \* ffn_hidden_size
     esd : 1..MaxDegree,         \* mpu.expert_sharding_degree(args)
     hsd : 1..MaxDegree,         \* mpu.hidden_sharding_degree(args)
     wpw : 1..MaxDegree]         \* mpu.get_weight_parallel_world_size(args)

Min(a, b) == IF a < b THEN a ELSE b

\* Python's seq[start:end] for 0 <= start, end
Slice(seq, start, end) == SubSeq(seq, start + 1, Min(end, Len(seq)))

\* master_weights after init_method: the same on every rank
master_weights(c) == [e \in 1..c.E |-> [r \in 1..c.F |-> (e - 1) * c.F + r]]

\* mpu.expert_sharding_degree / mpu.hidden_sharding_degree raise on a
\* dimension their degree does not divide
mpu_sharding_error(c) == c.E % c.esd # 0 \/ c.F % c.hsd # 0

\* the ranks of the expert parallel group and of the weight parallel group
World(c) == IF c.ep THEN c.esd * c.hsd ELSE 1
WpWorld(c) == IF c.wp THEN c.wpw ELSE 1

\* the expert rank taken from the quotient instead of the remainder
expert_rank_by_quotient(rank, expert_sharding_degree) ==
    rank \div expert_sharding_degree

\* expert_rank = rank % expert_sharding_degree
expert_rank(rank, expert_sharding_degree) == rank % expert_sharding_degree
\* row_rank = rank // expert_sharding_degree
row_rank(rank, expert_sharding_degree) == rank \div expert_sharding_degree

Raised(e) == [ok |-> FALSE, error |-> e, w |-> <<>>]
Returned(w) == [ok |-> TRUE, error |-> "", w |-> w]

create_moe_expert_weights(c, rank) ==
    LET master == master_weights(c)
    IN IF ~c.ep THEN Returned(master)
       ELSE IF mpu_sharding_error(c) THEN Raised("ValueError")
       ELSE LET num_experts_per_rank == c.E \div c.esd
                start_expert == expert_rank(rank, c.esd) * num_experts_per_rank
                end_expert == (expert_rank(rank, c.esd) + 1) * num_experts_per_rank
                num_rows_per_rank == c.F \div c.hsd
                start_row == row_rank(rank, c.esd) * num_rows_per_rank
                end_row == (row_rank(rank, c.esd) + 1) * num_rows_per_rank
                experts == Slice(master, start_expert, end_expert)
            IN Returned([e \in 1..Len(experts) |->
                            Slice(experts[e], start_row, end_row)])

\* weights.view([-1, columns]): the rows of all experts, expert by expert
RECURSIVE view_rows(_)
view_rows(w) == IF w = <<>> THEN <<>> ELSE Head(w) \o view_rows(Tail(w))

\* the assertion left out
dmoe_rows_unchecked(rows, weight_parallel_world_size) == TRUE

\* assert (rows % weight_parallel_world_size) == 0
dmoe_rows_divisible(rows, weight_parallel_world_size) ==
    rows % weight_parallel_world_size = 0

create_dmoe_expert_weights(c, rank, wp_rank) ==
    LET m == create_moe_expert_weights(c, rank)
    IN IF ~m.ok THEN m
       ELSE LET weights == view_rows(m.w)
                rows == Len(weights)
            IN IF ~c.wp THEN Returned(weights)
               ELSE IF ~dmoe_rows_divisible(rows, c.wpw)
                    THEN Raised("AssertionError")
               ELSE LET num_rows_per_rank == rows \div c.wpw
                        start_row == wp_rank * num_rows_per_rank
                        end_row == (wp_rank + 1) * num_rows_per_rank
                    IN Returned(Slice(weights, start_row, end_row))

\* the next rank builds its dense expert weights (MLP.__init__)
moe_rank ==
    /\ Len(moe) < World(cfg)
    /\ moe' = Append(moe, create_moe_expert_weights(cfg, Len(moe)))
    /\ UNCHANGED <<cfg, dmoe, opvars, dispvars>>

\* the next rank builds its block-sparse expert weights (SparseMLP.__init__)
dmoe_rank ==
    /\ Len(moe) = World(cfg)
    /\ Len(dmoe) < World(cfg) * WpWorld(cfg)
    /\ LET rank == Len(dmoe) \div WpWorld(cfg)
           wp_rank == Len(dmoe) % WpWorld(cfg)
       IN dmoe' = Append(dmoe, [rank |-> rank, wp_rank |-> wp_rank,
                   res |-> create_dmoe_expert_weights(cfg, rank, wp_rank)])
    /\ UNCHANGED <<cfg, moe, opvars, dispvars>>

(***************************************************************************)
(* ScaleGradient, MLP.forward, SparseMLP.forward                           *)
(*                                                                         *)
(* A number is a fraction <<numerator, denominator>>, so that              *)
(* 1 / expert_parallel_world_size is exact.  A weight handed to a kernel   *)
(* is a handle: the parameter itself (node 0) or the output of a           *)
(* ScaleGradient node of the autograd graph.                               *)
(***************************************************************************)
\* expert parallel world sizes tried: 1..MaxWorld
MaxWorld == 3
\* gradients a kernel hands back for a weight: -MaxGrad..MaxGrad
MaxGrad == 2

Frac(n) == <<n, 1>>
Mul(a, b) == <<a[1] * b[1], a[2] * b[2]>>
FracEq(a, b) == a[1] * b[2] = b[1] * a[2]

NoScale == <<0, 0>>

Modules ==
    [kind : {"MLP", "SparseMLP"},
     ep : BOOLEAN,                  \* args.moe_expert_model_parallelism
     wp : BOOLEAN,                  \* args.moe_weight_parallelism
     mo : BOOLEAN,                  \* args.memory_optimized_mlp
     num_bits : {-1, 4, 8},         \* args.quantize_activations_num_bits
     W : 1..MaxWorld]               \* mpu.get_expert_parallel_world_size(args)

\* __init__: self.gradient_scale = None, or 1 / world size under expert
\* model parallelism
gradient_scale(m) == IF m.ep THEN <<1, m.W>> ELSE NoScale

\* the values of the parameters self.w1 and self.w2
ParamValue(name) == IF name = "w1" THEN Frac(3) ELSE Frac(5)

\* ScaleGradient.forward(ctx, x, scale): ctx.scale = scale; return x
ScaleGradient_forward(x, scale) == [ctx_scale |-> scale, out |-> x]

\* ScaleGradient.backward(ctx, grad): return grad * ctx.scale, None
ScaleGradient_backward(ctx_scale, grad) == <<Mul(grad, ctx_scale), None>>

Handle(node, param, value) == [node |-> node, param |-> param, value |-> value]

\* the parameter self.w1 / self.w2 as a handle
Param(name) == Handle(0, name, ParamValue(name))

\* scale_grad(self, w): w itself without a gradient scale, else the output
\* of a new ScaleGradient node on w.  Returns the graph and the handle.
scale_grad(g, m, w) ==
    IF gradient_scale(m) = NoScale
    THEN [graph |-> g, w |-> w]
    ELSE LET f == ScaleGradient_forward(w.value, gradient_scale(m))
         IN [graph |-> Append(g, [input |-> w, ctx_scale |-> f.ctx_scale,
                                  out |-> f.out]),
             w |-> Handle(Len(g) + 1, w.param, f.out)]

Call(fn, w1, w2, has_num_bits, num_bits) ==
    [fn |-> fn, w1 |-> w1, w2 |-> w2, has_num_bits |-> has_num_bits,
     num_bits |-> num_bits]
NoCall == Call("", Handle(0, "", NoScale), Handle(0, "", NoScale), FALSE, 0)

\* the last handle in the graph for a parameter, the parameter if none
RECURSIVE LastHandle(_, _, _)
LastHandle(g, i, param) ==
    IF i = 0 THEN Param(param)
    ELSE IF g[i].input.param = param THEN Handle(i, param, g[i].out)
    ELSE LastHandle(g, i - 1, param)

\* parallel_forward scaling the weights forward already scaled
parallel_forward_rewrap(g, m) ==
    LET a == scale_grad(g, m, LastHandle(g, Len(g), "w1"))
        b == scale_grad(a.graph, m, LastHandle(g, Len(g), "w2"))
    IN IF m.mo
       THEN [graph |-> b.graph,
             call |-> Call("wp.memory_optimized_weight_parallel_mlp",
                           a.w, b.w, FALSE, 0)]
       ELSE [graph |-> b.graph,
             call |-> Call("wp.sdd_nt/gelu/wp.dsd_nn", a.w, b.w, FALSE, 0)]

\* SparseMLP.parallel_forward(x, topo)
parallel_forward(g, m) ==
    LET a == scale_grad(g, m, Param("w1"))
        b == scale_grad(a.graph, m, Param("w2"))
    IN IF m.mo
       THEN [graph |-> b.graph,
             call |-> Call("wp.memory_optimized_weight_parallel_mlp",
                           a.w, b.w, FALSE, 0)]
       ELSE [graph |-> b.graph,
             call |-> Call("wp.sdd_nt/gelu/wp.dsd_nn", a.w, b.w, FALSE, 0)]

\* SparseMLP.forward(x, topo)
SparseMLP_forward(g, m) ==
    LET a == scale_grad(g, m, Param("w1"))
        b == scale_grad(a.graph, m, Param("w2"))
    IN IF m.wp THEN parallel_forward(b.graph, m)
       ELSE IF m.mo
       THEN [graph |-> b.graph,
             call |-> Call("memory_optimized_mlp", a.w, b.w, TRUE, m.num_bits)]
       ELSE [graph |-> b.graph,
             call |-> Call("stk.ops.sdd/gelu/stk.ops.dsd", a.w, b.w, FALSE, 0)]

\* MLP.forward(x)
MLP_forward(g, m) ==
    LET a == scale_grad(g, m, Param("w1"))
        b == scale_grad(a.graph, m, Param("w2"))
    IN [graph |-> b.graph,
        call |-> Call("torch.bmm/gelu/torch.bmm", a.w, b.w, FALSE, 0)]

NoGrad == [up1 |-> Frac(0), up2 |-> Frac(0), w1 |-> Frac(0), w2 |-> Frac(0),
           n1 |-> 0, n2 |-> 0]

\* the module's forward runs: the graph is built and the kernels are called
module_forward ==
    /\ dpc = "built"
    /\ LET r == IF mod.kind = "MLP" THEN MLP_forward(<<>>, mod)
                ELSE SparseMLP_forward(<<>>, mod)
       IN /\ graph' = r.graph
          /\ callee' = r.call
    /\ dpc' = "forward_done"
    /\ UNCHANGED <<mod, pgrad, opvars, shardvars>>

\* the gradient a weight handle's parameter receives for the gradient grad
\* of the handle: backward through every ScaleGradient node between the
\* handle and the parameter; n counts the nodes passed
RECURSIVE ParamGrad(_, _, _)
ParamGrad(g, h, grad) ==
    IF h.node = 0 THEN [grad |-> grad, n |-> 0]
    ELSE LET r == ParamGrad(g, g[h.node].input,
                     ScaleGradient_backward(g[h.node].ctx_scale, grad)[1])
         IN [grad |-> r.grad, n |-> r.n + 1]

\* autograd's backward: the called kernels hand back the gradients of the
\* weights they were given, and each flows to its parameter
module_backward ==
    /\ dpc = "forward_done"
    /\ \E g1 \in -MaxGrad..MaxGrad, g2 \in -MaxGrad..MaxGrad :
          pgrad' = [up1 |-> Frac(g1), up2 |-> Frac(g2),
                    w1 |-> ParamGrad(graph, callee.w1, Frac(g1)).grad,
                    w2 |-> ParamGrad(graph, callee.w2, Frac(g2)).grad,
                    n1 |-> ParamGrad(graph, callee.w1, Frac(g1)).n,
                    n2 |-> ParamGrad(graph, callee.w2, Frac(g2)).n]
    /\ dpc' = "backward_done"
    /\ UNCHANGED <<mod, graph, callee, opvars, shardvars>>

(***************************************************************************)
(* The state before any call.                                              *)
(***************************************************************************)
OpIdle ==
    /\ pc = "idle"
    /\ args = NoArgs
    /\ heap = InitHeap
    /\ ver = InitVer
    /\ ctx = EmptyCtx
    /\ fl = InitFl
    /\ bl = InitBl
    /\ bbound = {}
    /\ grads = <<TRUE, TRUE, TRUE>>
    /\ log = <<>>
    /\ pre = [heap |-> InitHeap, ver |-> InitVer, ctx |-> EmptyCtx]
    /\ err = ""
    /\ ret = <<>>
    /\ nbwd = 0

NoConfig == [ep |-> FALSE, wp |-> FALSE, E |-> 1, F |-> 1, esd |-> 1,
             hsd |-> 1, wpw |-> 1]

ShardIdle ==
    /\ cfg = NoConfig
    /\ moe = <<>>
    /\ dmoe = <<>>

NoModule == [kind |-> "", ep |-> FALSE, wp |-> FALSE, mo |-> FALSE,
             num_bits |-> -1, W |-> 1]

DispIdle ==
    /\ mod = NoModule
    /\ dpc = "idle"
    /\ graph = <<>>
    /\ callee = NoCall
    /\ pgrad = NoGrad

(***************************************************************************)
(* MemoryOptimizedMLP: one forward, then backward calls on its context.    *)
(***************************************************************************)
Init == OpIdle /\ ShardIdle /\ DispIdle

Next ==
    \/ forward_call
    \/ forward_sdd
    \/ forward_gelu
    \/ forward_dsd
    \/ forward_save
    \/ backward_call
    \/ backward_remat
    \/ backward_dw2
    \/ backward_dgelu
    \/ backward_dsdd
    \/ backward_dw1
    \/ backward_dx

Spec == Init /\ [][Next]_vars

(***************************************************************************)
(* Weight sharding: every rank of a configuration builds its weights.      *)
(***************************************************************************)
InitShard ==
    /\ cfg \in Configs
    /\ moe = <<>>
    /\ dmoe = <<>>
    /\ OpIdle /\ DispIdle

NextShard ==
    \/ moe_rank
    \/ dmoe_rank

SpecShard == InitShard /\ [][NextShard]_vars

(***************************************************************************)
(* MLP / SparseMLP: a constructed module runs forward, then backward.      *)
(***************************************************************************)
InitDispatch ==
    /\ mod \in Modules
    /\ dpc = "built"
    /\ graph = <<>>
    /\ callee = NoCall
    /\ pgrad = NoGrad
    /\ OpIdle /\ ShardIdle

NextDispatch ==
    \/ module_forward
    \/ module_backward

SpecDispatch == InitDispatch /\ [][NextDispatch]_vars

(***************************************************************************)
(* Properties of MemoryOptimizedMLP (under Spec).                          *)
(***************************************************************************)
\* a forward call is running or has ended, and no backward call followed
InForward == pc # "idle" /\ nbwd = 0
\* a backward call is running or has ended
InBackward == nbwd > 0
AllGradsNeeded == grads[1] /\ grads[2] /\ grads[3]

\* C1: for every num_bits in {-1, 4, 8}, a backward call that follows a
\* successful forward and has gradients required for x, w1 and w2 never
\* raises (every value a step reads is defined), and when it ends it has
\* returned the 5-tuple (dx, dw1, dw2, None, None).
C1_BackwardReturnsGradients ==
    (InBackward /\ AllGradsNeeded) =>
        /\ pc # "raised"
        /\ pc = "bwd_done" => ret = <<bl.dx, bl.dw1, bl.dw2, None, None>>

\* SparseMLP.forward's plain branch on the same inputs:
\*   x = stk.ops.sdd(x, w1.t(), topo); return stk.ops.dsd(gelu.gelu(x), w2)
plain_forward_value(h, tp) ==
    LET x == sdd_kernel(h[Buf("x")], t(h[Buf("w1")]), tp.shape, h[tp.offsets],
                        h[tp.row_indices], h[tp.column_indices])
    IN dsd_kernel(tp.shape, gelu_value(x), h[tp.offsets], h[tp.row_indices],
                  h[tp.column_indices], h[tp.offsets_t],
                  h[tp.column_indices_t], h[tp.block_offsets_t], FALSE,
                  h[Buf("w2")])

\* C2: with num_bits = -1 the tensor forward returns holds
\* dsd(gelu(sdd(x, w1 transposed, topo)), w2), the value of the plain branch
\* of SparseMLP.forward on the same inputs.
C2_ForwardEqualsPlain ==
    (pc = "fwd_done" /\ args.num_bits = -1) =>
        /\ Len(ret) = 1
        /\ heap[ret[1]] = plain_forward_value(InitHeap, topo(args.shape))

C2_Witness == pc = "fwd_done" /\ args.num_bits = -1 /\ args.shape = <<1, 2>>

\* C5: a forward call given a non-contiguous x, w1 or w2, or a num_bits
\* outside {-1, 4, 8}, and a backward call with a gradient of x, w1 or w2
\* not needed, has raised with no kernel run, no buffer written and nothing
\* stored in the context.
C5_EagerChecks ==
    LET untouched == /\ log = <<>>
                     /\ heap = pre.heap
                     /\ ver = pre.ver
                     /\ ctx = pre.ctx
                     /\ ret = <<>>
    IN /\ (InForward /\ (~args.x_contig \/ ~args.w1_contig \/ ~args.w2_contig
                         \/ args.num_bits \notin {-1, 4, 8})) =>
             (pc = "raised" /\ err # "" /\ untouched /\ ctx = EmptyCtx)
       /\ (InBackward /\ ~AllGradsNeeded) =>
             (pc = "raised" /\ err # "" /\ untouched
              /\ heap[bl.ddsd_out] = T("ddsd_out", <<>>, <<nbwd>>))

C5_Witness ==
    /\ pc = "raised" /\ nbwd = 2 /\ ~grads[2] /\ grads[1] /\ grads[3]
    /\ ctx.num_bits = 8

\* C6: after a successful forward the context holds num_bits, the topology
\* shape and, in this order, one activation representation (x and the
\* pre-activation, or the quantized x and hidden activation with their
\* scales and neither x nor the pre-activation), w1, w2 and the six topology
\* tensors; backward's unpacking binds each name to the tensor forward
\* stored in that role.
C6_SavedContext ==
    LET saved == ctx.saved_tensors
        isa == fl.input_save_args
        q == quantize_signed(InitHeap[Buf("x")], ctx.num_bits)
        pre_act == forward_sdd_value(InitHeap, topo(args.shape))
        qh == quantize_signed_gelu(pre_act, ctx.num_bits)
        unpacked == InBackward /\ "gelu_out" \in bbound
    IN (saved # <<>>) =>
        /\ ctx.num_bits = args.num_bits
        /\ ctx.shape = args.shape
        /\ Len(saved) = Len(isa) + 8
        /\ SubSeq(saved, Len(isa) + 1, Len(saved)) =
               <<Buf("w1"), Buf("w2"), Buf("row_indices"),
                 Buf("column_indices"), Buf("offsets"),
                 Buf("column_indices_t"), Buf("offsets_t"),
                 Buf("block_offsets_t")>>
        /\ ctx.num_bits = -1 =>
              /\ SubSeq(saved, 1, 2) = <<Buf("x"), fl.sdd_out.data>>
              /\ heap[saved[2]] = pre_act
              /\ unpacked =>
                    /\ bl.x = Buf("x") /\ bl.sdd_out_data = fl.sdd_out.data
                    /\ bl.sdd_out.data = fl.sdd_out.data
                    /\ bl.sdd_out.shape = args.shape
        /\ ctx.num_bits # -1 =>
              /\ Len(isa) = 4
              /\ <<heap[saved[1]], heap[saved[2]]>> = q
              /\ <<heap[saved[3]], heap[saved[4]]>> = <<qh[1], qh[2]>>
              /\ \A i \in 1..Len(saved) :
                    saved[i] \notin {Buf("x"), fl.sdd_out.data}
              /\ unpacked =>
                    /\ <<heap[bl.x_q], heap[bl.x_scales]>> = q
                    /\ <<heap[bl.hidden_q], heap[bl.hidden_scales]>> =
                           <<qh[1], qh[2]>>
                    /\ bl.gelu_out.shape = args.shape
        /\ unpacked =>
              /\ bl.w1 = Buf("w1") /\ bl.w2 = Buf("w2")
              /\ bl.topo_tensors = topo_tensors

C6_Witness ==
    /\ InBackward /\ "gelu_out" \in bbound /\ ctx.num_bits = 8
    /\ bl.w2 = Buf("w2")

\* the buffer-reuse schedule of a completed backward call, read off the log
ScheduleRespected ==
    LET at(step) == CHOOSE i \in 1..Len(log) : log[i].step = step
        has(step) == \E i \in 1..Len(log) : log[i].step = step
        gbuf == bl.gelu_out.data
        gin == bl.ddsd_out
    IN /\ \A st \in {"dw2", "dgelu", "dsdd", "dw1", "dx"} : has(st)
       /\ at("dw2") < at("dgelu") /\ at("dgelu") < at("dsdd")
       /\ at("dsdd") < at("dw1") /\ at("dw1") < at("dx")
       \* dw2 reads the rematerialized gelu_out and the incoming gradient
       /\ {<<gbuf, 0>>, <<gin, 0>>} \subseteq log[at("dw2")].reads
       \* dgelu_out reads the incoming gradient and overwrites gelu_out
       /\ <<gin, 0>> \in log[at("dgelu")].reads
       /\ log[at("dgelu")].writes = {gbuf}
       \* dsdd_out reads dgelu_out and overwrites it in place
       /\ <<gbuf, 1>> \in log[at("dsdd")].reads
       /\ log[at("dsdd")].writes = {gbuf}
       \* dw1 reads dsdd_out, and only then dx overwrites the incoming gradient
       /\ <<gbuf, 2>> \in log[at("dw1")].reads
       /\ <<gbuf, 2>> \in log[at("dx")].reads
       /\ log[at("dx")].writes = {gin}
       /\ ret[1] = gin

\* C9: on the unquantized and on the quantized path, a backward call that
\* passed its check runs the buffer-reuse schedule: gelu_out is read for dw2
\* before dgelu_out overwrites it, dgelu_out is read before dsdd_out
\* overwrites it in place, the incoming gradient is read for dw2 and
\* dgelu_out before dx overwrites it, dw1 is computed before dx is written,
\* and the returned dx is the ddsd_out buffer.
C9_BufferReuseSchedule ==
    (InBackward /\ AllGradsNeeded /\ pc \in {"bwd_done", "raised"}) =>
        (pc = "bwd_done" /\ ScheduleRespected)

\* C10: forward and backward leave every buffer that existed when the call
\* was entered as it was, except the incoming gradient ddsd_out of a backward
\* call; the only buffers ever overwritten are that gradient and the gelu_out
\* buffer the same backward call rematerialized.  The saved tensors, w1, w2
\* and the topology tensors are never written, so a later backward over the
\* same context reads what the first one read.
C10_SavedTensorsUntouched ==
    /\ \A b \in 1..Len(pre.heap) :
          (b # bl.ddsd_out) => (heap[b] = pre.heap[b] /\ ver[b] = pre.ver[b])
    /\ \A b \in 1..Len(heap) :
          (b > Len(pre.heap) /\ ver[b] > 0) => b = bl.gelu_out.data
    /\ \A i \in 1..Len(ctx.saved_tensors) : ver[ctx.saved_tensors[i]] = 0
    /\ \A b \in 1..Len(InitHeap) : heap[b] = InitHeap[b] /\ ver[b] = 0
    /\ (ctx.saved_tensors # <<>> /\ ctx.num_bits = -1) =>
          heap[ctx.saved_tensors[2]] =
              forward_sdd_value(InitHeap, topo(args.shape))

C10_Witness ==
    /\ pc = "bwd_done" /\ nbwd = 2 /\ ctx.num_bits = -1
    /\ ver[bl.gelu_out.data] = 2 /\ ver[bl.ddsd_out] = 1

(***************************************************************************)
(* Properties of the weight sharding (under SpecShard).                    *)
(***************************************************************************)
\* the rows of a result, in order
Rows(res) == view_rows(res.w)
\* the master rows, as numbered by master_weights
MasterRows == 1..(cfg.E * cfg.F)
\* the rows a rank holds before weight parallel slicing
LocalRows == IF cfg.ep THEN (cfg.E \div cfg.esd) * (cfg.F \div cfg.hsd)
             ELSE cfg.E * cfg.F
ValidConfig ==
    /\ cfg.ep => (cfg.E % cfg.esd = 0 /\ cfg.F % cfg.hsd = 0)
    /\ cfg.wp => LocalRows % cfg.wpw = 0
\* how many of the given row sequences hold master row v, and how often
Holders(seqs, v) ==
    {<<k, i>> \in (1..Len(seqs)) \X (1..(cfg.E * cfg.F)) :
        i <= Len(seqs[k]) /\ seqs[k][i] = v}
MoeRows == [k \in 1..Len(moe) |-> Rows(moe[k])]
DmoeRows == [k \in 1..Len(dmoe) |-> dmoe[k].res.w]

\* C3: under a valid sharding configuration every rank's call returns a
\* shard; no master row is in two shards; once every rank has its shard each
\* master row is in exactly one; the shard of a rank is the block of experts
\* rank % expert_sharding_degree crossed with the block of rows
\* rank // expert_sharding_degree, a weight parallel shard is a contiguous
\* run of the rows of its rank's flattened shard; with parallelism disabled
\* the whole master is returned.
C3_ShardsPartitionMaster ==
    ValidConfig =>
        /\ \A k \in 1..Len(moe) : moe[k].ok
        /\ \A k \in 1..Len(dmoe) : dmoe[k].res.ok
        /\ \A v \in MasterRows :
              /\ Cardinality(Holders(MoeRows, v)) <= 1
              /\ Cardinality(Holders(DmoeRows, v)) <= 1
              /\ Len(moe) = World(cfg) =>
                    Cardinality(Holders(MoeRows, v)) = 1
              /\ Len(dmoe) = World(cfg) * WpWorld(cfg) =>
                    Cardinality(Holders(DmoeRows, v)) = 1
        /\ cfg.ep => \A k \in 1..Len(moe) :
              LET ne == cfg.E \div cfg.esd
                  nr == cfg.F \div cfg.hsd
                  e0 == ((k - 1) % cfg.esd) * ne
                  r0 == ((k - 1) \div cfg.esd) * nr
              IN moe[k].w = [e \in 1..ne |-> [r \in 1..nr |->
                                 (e0 + e - 1) * cfg.F + r0 + r]]
        /\ \A k \in 1..Len(dmoe) :
              LET flat == Rows(moe[dmoe[k].rank + 1])
                  n == Len(flat) \div WpWorld(cfg)
              IN dmoe[k].res.w =
                     SubSeq(flat, dmoe[k].wp_rank * n + 1,
                            (dmoe[k].wp_rank + 1) * n)
        /\ ~cfg.ep => \A k \in 1..Len(moe) :
              moe[k].w = [e \in 1..cfg.E |-> [r \in 1..cfg.F |->
                             (e - 1) * cfg.F + r]]
        /\ (~cfg.ep /\ ~cfg.wp) => \A k \in 1..Len(dmoe) :
              dmoe[k].res.w = [v \in MasterRows |-> v]

C3_Witness ==
    /\ ValidConfig /\ cfg.ep /\ cfg.wp
    /\ cfg.E = 2 /\ cfg.F = 2 /\ cfg.esd = 2 /\ cfg.hsd = 2 /\ cfg.wpw = 1
    /\ Len(moe) = 4 /\ Len(dmoe) = 4
    /\ moe[3].w = <<<<2>>>>

C7_DispatchWithQuantization ==
    (mod.kind = "SparseMLP" /\ dpc # "built") =>
        /\ callee.fn =
              IF mod.wp
              THEN IF mod.mo THEN "wp.memory_optimized_weight_parallel_mlp"
                   ELSE "wp.sdd_nt/gelu/wp.dsd_nn"
              ELSE IF mod.mo THEN "memory_optimized_mlp"
                   ELSE "stk.ops.sdd/gelu/stk.ops.dsd"
        /\ mod.mo => (callee.has_num_bits /\ callee.num_bits = mod.num_bits)

\* C8: every ScaleGradient node outputs its input unchanged and keeps the
\* scale 1 / expert_parallel_world_size; the weights every strategy is given
\* have the values of the parameters; and after backward each of w1 and w2
\* has received, under expert model parallelism, the kernel's gradient
\* passed through exactly one ScaleGradient.backward, that is multiplied by
\* 1 / expert_parallel_world_size once, and otherwise the kernel's gradient
\* itself through no node.
C8_GradientScaledOnce ==
    /\ \A i \in 1..Len(graph) :
          /\ graph[i].out = graph[i].input.value
          /\ graph[i].ctx_scale = <<1, mod.W>>
    /\ dpc # "built" =>
          /\ callee.w1.value = ParamValue("w1") /\ callee.w1.param = "w1"
          /\ callee.w2.value = ParamValue("w2") /\ callee.w2.param = "w2"
          /\ mod.ep <=> Len(graph) > 0
    /\ dpc = "backward_done" =>
          IF mod.ep
          THEN /\ pgrad.n1 = 1 /\ pgrad.n2 = 1
               /\ FracEq(pgrad.w1, <<pgrad.up1[1], mod.W>>)
               /\ FracEq(pgrad.w2, <<pgrad.up2[1], mod.W>>)
          ELSE /\ pgrad.n1 = 0 /\ pgrad.n2 = 0
               /\ pgrad.w1 = pgrad.up1 /\ pgrad.w2 = pgrad.up2

C8_Witness ==
    /\ dpc = "backward_done" /\ mod.kind = "SparseMLP"
    /\ mod.ep /\ mod.wp /\ mod.mo /\ mod.W = 2
    /\ pgrad.up1 = <<2, 1>> /\ pgrad.w1 = <<2, 2>> /\ Len(graph) = 4

====
